---------------------------- MODULE Spec2Model ----------------------------
(***************************************************************************)
(* NeuroSched: the simulation kernel (engine loop, job generator thread,   *)
(* event queue, node accounting, FIFO and SRTF schedulers, results) as a   *)
(* state machine.  Wall-clock time is an integer number of ticks; None is  *)
(* written 0 and every clock reading is >= T0 = 1, so Python truthiness    *)
(* ("if job.preemption_time:") and "is None" coincide with "# 0".          *)
(***************************************************************************)
EXTENDS Integers, Sequences, FiniteSets, TLC

\* ---------------------------------------------------------------- bounds
MaxJobs == 3
MaxDuration == 2
RuntimeSeconds == 2

T0 == 1
\* the clock stops one tick after the run's runtime_seconds have passed
MaxTime(cfg) == T0 + cfg.runtime_seconds + 1

None == 0

Max(a, b) == IF a >= b THEN a ELSE b

\* ------------------------------------------------------------ api/schemas
NewNode(cpu, ram, gpus) ==
    [total_cpu |-> cpu, total_ram |-> ram, total_gpus |-> gpus,
     used_cpu |-> 0, used_ram |-> 0, used_gpus |-> 0, running_jobs |-> <<>>]

NewJob(tenant, cpu, ram, gpus, prio, now, dur) ==
    [tenant_id |-> tenant, cpu |-> cpu, ram |-> ram, gpus |-> gpus,
     priority |-> prio, arrival_time |-> now, start_time |-> None,
     end_time |-> None, preemption_time |-> None, last_start_time |-> None,
     remaining_time |-> dur, duration |-> dur, wait_time |-> 0,
     state |-> "queued"]

InSeq(x, s) == \E i \in 1..Len(s) : s[i] = x

\* list.remove(x): drops the first occurrence (the callers check presence)
RECURSIVE ListRemove(_, _)
ListRemove(s, x) ==
    IF s = <<>> THEN <<>>
    ELSE IF Head(s) = x THEN Tail(s)
    ELSE <<Head(s)>> \o ListRemove(Tail(s), x)

\* a can_allocate that forgets the cpu dimension
CanAllocateNoCpu(node, job) ==
    /\ node.total_ram - node.used_ram >= job.ram
    /\ node.total_gpus - node.used_gpus >= job.gpus

CanAllocate(node, job) ==
    /\ node.total_cpu - node.used_cpu >= job.cpu
    /\ node.total_ram - node.used_ram >= job.ram
    /\ node.total_gpus - node.used_gpus >= job.gpus

\* Node.allocate past its can_allocate check (the check raises ValueError;
\* the callers below model the raise)
NodeAllocate(node, id, job) ==
    [node EXCEPT !.used_cpu = @ + job.cpu,
                 !.used_ram = @ + job.ram,
                 !.used_gpus = @ + job.gpus,
                 !.running_jobs = Append(@, id)]

\* an allocate that books the request before it checks for room
AllocateEager(node, id, job) ==
    [node |-> NodeAllocate(node, id, job), raised |-> ~CanAllocate(node, job)]

\* Node.allocate as a call: the node it leaves and whether it raised
Allocate(node, id, job) ==
    IF ~CanAllocate(node, job) THEN [node |-> node, raised |-> TRUE]
    ELSE [node |-> NodeAllocate(node, id, job), raised |-> FALSE]

NodeRelease(node, id, job) ==
    IF InSeq(id, node.running_jobs)
    THEN [node EXCEPT !.used_cpu = @ - job.cpu,
                      !.used_ram = @ - job.ram,
                      !.used_gpus = @ - job.gpus,
                      !.running_jobs = ListRemove(@, id)]
    ELSE node

PriorityValue(p) ==
    CASE p = "low" -> 1 [] p = "med" -> 2 [] p = "high" -> 3 [] OTHER -> 0

\* ------------------------------------------------------------------ heapq
\* Python's heapq on a list; position p (0-based) is index p+1.  A heap
\* value is [h |-> list, err |-> a comparison raised, kind |-> what the list
\* holds].  Event entries are (time, seq, event): seq is unique, so the
\* comparison never reaches the event.  Running entries are
\* (finish_time, job, node): with equal finish_time the tuple comparison
\* goes on to job < job, which pydantic models do not define (TypeError).
ItemRaises(kind, a, b) == kind = "running" /\ a[1] = b[1]

\* a comparison that looks at the time alone
ItemLtByTime(kind, a, b) == a[1] < b[1]

ItemLt(kind, a, b) ==
    \/ a[1] < b[1]
    \/ kind = "event" /\ a[1] = b[1] /\ a[2] < b[2]

RECURSIVE SiftDown(_, _, _, _)
SiftDown(H, startpos, pos, newitem) ==
    IF H.err THEN H
    ELSE IF pos > startpos
    THEN LET parentpos == (pos - 1) \div 2
             parent == H.h[parentpos + 1]
         IN  IF ItemRaises(H.kind, newitem, parent)
             THEN [H EXCEPT !.h[pos + 1] = newitem, !.err = TRUE]
             ELSE IF ItemLt(H.kind, newitem, parent)
             THEN SiftDown([H EXCEPT !.h[pos + 1] = parent], startpos,
                           parentpos, newitem)
             ELSE [H EXCEPT !.h[pos + 1] = newitem]
    ELSE [H EXCEPT !.h[pos + 1] = newitem]

RECURSIVE SiftUpLoop(_, _, _, _)
SiftUpLoop(H, startpos, pos, newitem) ==
    LET endpos == Len(H.h)
        childpos == 2 * pos + 1
        rightpos == childpos + 1
    IN  IF childpos < endpos
        THEN IF rightpos < endpos
                /\ ItemRaises(H.kind, H.h[childpos + 1], H.h[rightpos + 1])
             THEN [H EXCEPT !.h[pos + 1] = newitem, !.err = TRUE]
             ELSE LET c == IF rightpos < endpos
                              /\ ~ItemLt(H.kind, H.h[childpos + 1],
                                         H.h[rightpos + 1])
                           THEN rightpos ELSE childpos
                  IN  SiftUpLoop([H EXCEPT !.h[pos + 1] = H.h[c + 1]],
                                 startpos, c, newitem)
        ELSE SiftDown(H, startpos, pos, newitem)

SiftUp(H, pos) ==
    IF H.err THEN H ELSE SiftUpLoop(H, pos, pos, H.h[pos + 1])

HeapPush(kind, heap, item) ==
    SiftDown([h |-> Append(heap, item), err |-> FALSE, kind |-> kind],
             0, Len(heap), item)

\* heappop on a non-empty list: [item, h, err]
HeapPop(kind, heap) ==
    LET lastelt == heap[Len(heap)]
        rest == SubSeq(heap, 1, Len(heap) - 1)
    IN  IF rest = <<>>
        THEN [item |-> lastelt, h |-> <<>>, err |-> FALSE]
        ELSE LET R == SiftUp([h |-> [rest EXCEPT ![1] = lastelt],
                              err |-> FALSE, kind |-> kind], 0)
             IN  [item |-> heap[1], h |-> R.h, err |-> R.err]

RECURSIVE HeapifyFrom(_, _)
HeapifyFrom(H, i) ==
    IF i < 0 THEN H ELSE HeapifyFrom(SiftUp(H, i), i - 1)

Heapify(kind, heap) ==
    HeapifyFrom([h |-> heap, err |-> FALSE, kind |-> kind],
                (Len(heap) \div 2) - 1)

\* ------------------------------------------------------- utils/job_utils
\* Python compares the key tuples lexicographically; sorted() is stable.
KeyLt(a, b) == a[1] < b[1] \/ (a[1] = b[1] /\ a[2] < b[2])

\* "ready": sort_ready_queue's key; "stf": the SRTF scheduler's key
SortKey(kind, job, now) ==
    IF kind = "ready"
    THEN <<0 - PriorityValue(job.priority), 0 - (now - job.arrival_time)>>
    ELSE <<job.remaining_time, 0 - PriorityValue(job.priority)>>

RECURSIVE SortedInsert(_, _, _, _, _)
SortedInsert(kind, J, now, s, id) ==
    IF s = <<>> THEN <<id>>
    ELSE IF KeyLt(SortKey(kind, J[id], now), SortKey(kind, J[Head(s)], now))
    THEN <<id>> \o s
    ELSE <<Head(s)>> \o SortedInsert(kind, J, now, Tail(s), id)

RECURSIVE SortInto(_, _, _, _, _)
SortInto(kind, J, now, acc, rest) ==
    IF rest = <<>> THEN acc
    ELSE SortInto(kind, J, now, SortedInsert(kind, J, now, acc, Head(rest)),
                  Tail(rest))

\* a pass that takes the ready queue in arrival order
ReadyQueueAsIs(J, ready, now) == ready

sort_ready_queue(J, ready, now) == SortInto("ready", J, now, <<>>, ready)

\* ------------------------------------------------------------- schedulers
\* A scheduling pass works on S = [jobs, cluster, ready, running, completed,
\* err, log]: the engine's collections, whether an exception was raised, and
\* what the pass logged, in order: "alloc" (Allocated Job ...), "preempt"
\* (Preempted Job ... for ...) and "wait" (Job ... waiting (no resources)).
\* A "preempt" or "wait" entry also keeps what the pass saw when it took the
\* decision: the running list with each running job's remaining_time, and
\* the remaining_time of the victim and of the job.  Every entry keeps the
\* cluster as the pass saw it when it looked for a node for the job.
LogEntry(kind, id, n, vid, S) ==
    [kind |-> kind, job |-> id, node |-> n, victim |-> vid,
     seen_cluster |-> S.cluster,
     job_remaining |-> S.jobs[id].remaining_time,
     victim_remaining |-> IF vid = 0 THEN 0 ELSE S.jobs[vid].remaining_time,
     seen_running |-> IF kind = "alloc" THEN <<>>
                      ELSE [i \in 1..Len(S.running) |->
                              [job |-> S.running[i][2],
                               node |-> S.running[i][3],
                               remaining |->
                                 S.jobs[S.running[i][2]].remaining_time]]]

\* an _allocate_job that takes every allocation for a first start
AllocateTimesRestart(job, now) ==
    [job EXCEPT !.start_time = now, !.wait_time = now - job.arrival_time,
                !.preemption_time = None, !.last_start_time = now,
                !.state = "running"]

\* an _allocate_job that subtracts the suspended time on resume
AllocateTimesSignSlip(job, now) ==
    LET j1 == IF job.start_time = None
              THEN [job EXCEPT !.start_time = now,
                               !.wait_time = now - job.arrival_time]
              ELSE IF job.preemption_time # None
              THEN [job EXCEPT !.wait_time = @ - (now - job.preemption_time),
                               !.preemption_time = None]
              ELSE job
    IN  [j1 EXCEPT !.last_start_time = now, !.state = "running"]

\* _allocate_job, the timing fields (first start or resume)
AllocateTimes(job, now) ==
    LET j1 == IF job.start_time = None
              THEN [job EXCEPT !.start_time = now,
                               !.wait_time = now - job.arrival_time]
              ELSE IF job.preemption_time # None
              THEN [job EXCEPT !.wait_time = @ + (now - job.preemption_time),
                               !.preemption_time = None]
              ELSE job
    IN  [j1 EXCEPT !.last_start_time = now, !.state = "running"]

\* _allocate_job; FIFO removes the job from the ready queue unguarded
\* (ValueError when absent), SRTF only when it is there
AllocateJob(S, n, id, now, sched) ==
    LET job == S.jobs[id]
        node == S.cluster[n]
    IN  IF ~CanAllocate(node, job) THEN [S EXCEPT !.err = TRUE]
        ELSE LET S1 == [S EXCEPT !.cluster[n] = NodeAllocate(node, id, job),
                                 !.jobs[id] = AllocateTimes(job, now)]
             IN  IF sched = "fifo" /\ ~InSeq(id, S.ready)
                 THEN [S1 EXCEPT !.err = TRUE]
                 ELSE LET P == HeapPush("running", S.running,
                                  <<now + S1.jobs[id].remaining_time, id, n>>)
                      IN  [S1 EXCEPT
                             !.ready = ListRemove(@, id),
                             !.running = P.h,
                             !.err = P.err,
                             !.log = Append(@, LogEntry("alloc", id, n, 0, S))]

\* a FIFO find_victim that also takes a victim of equal priority
FifoEligibleOrEqual(victim, incoming) ==
    PriorityValue(victim.priority) <= PriorityValue(incoming.priority)

\* find_victim, FIFO: strictly lower priority than the incoming job
FifoEligible(victim, incoming) ==
    PriorityValue(victim.priority) < PriorityValue(incoming.priority)

\* an SRTF find_victim that decides on priority alone
StfEligibleByPriority(victim, incoming) ==
    \/ incoming.remaining_time < victim.remaining_time
    \/ PriorityValue(incoming.priority) > PriorityValue(victim.priority)

\* find_victim, SRTF: incoming shorter, or equal and of higher priority
StfEligible(victim, incoming) ==
    \/ incoming.remaining_time < victim.remaining_time
    \/ /\ incoming.remaining_time = victim.remaining_time
       /\ PriorityValue(incoming.priority) > PriorityValue(victim.priority)

\* find_victim: the swap (victim out, incoming in) fits the victim's node
SwapFits(node, victim, incoming) ==
    /\ node.used_cpu - victim.cpu + incoming.cpu <= node.total_cpu
    /\ node.used_ram - victim.ram + incoming.ram <= node.total_ram
    /\ node.used_gpus - victim.gpus + incoming.gpus <= node.total_gpus

IsVictim(S, i, id, sched) ==
    LET victim == S.jobs[S.running[i][2]]
        node == S.cluster[S.running[i][3]]
        incoming == S.jobs[id]
    IN  /\ IF sched = "fifo" THEN FifoEligible(victim, incoming)
                             ELSE StfEligible(victim, incoming)
        /\ SwapFits(node, victim, incoming)

\* find_victim: index of the first match in the heap's list order, 0 = None
FindVictim(S, id, sched) ==
    IF \E i \in 1..Len(S.running) : IsVictim(S, i, id, sched)
    THEN CHOOSE i \in 1..Len(S.running) :
            /\ IsVictim(S, i, id, sched)
            /\ \A k \in 1..(i - 1) : ~IsVictim(S, k, id, sched)
    ELSE 0

\* a preempt_and_allocate that leaves the victim's state "running"
PreemptVictimKeepsState(victim, now) ==
    [victim EXCEPT
       !.remaining_time = Max(0, @ - (now - victim.last_start_time)),
       !.preemption_time = now]

\* preempt_and_allocate, the victim's fields
PreemptVictim(victim, now) ==
    [victim EXCEPT
       !.remaining_time = Max(0, @ - (now - victim.last_start_time)),
       !.state = "preempted",
       !.preemption_time = now]

\* a placement that takes the last node with room
LastFit(S, id) ==
    IF \E n \in 1..Len(S.cluster) : CanAllocate(S.cluster[n], S.jobs[id])
    THEN CHOOSE n \in 1..Len(S.cluster) :
            /\ CanAllocate(S.cluster[n], S.jobs[id])
            /\ \A k \in (n + 1)..Len(S.cluster) :
                  ~CanAllocate(S.cluster[k], S.jobs[id])
    ELSE 0

\* schedule's loop over the nodes: the first that can_allocate, 0 = none
FirstFit(S, id) ==
    IF \E n \in 1..Len(S.cluster) : CanAllocate(S.cluster[n], S.jobs[id])
    THEN CHOOSE n \in 1..Len(S.cluster) :
            /\ CanAllocate(S.cluster[n], S.jobs[id])
            /\ \A k \in 1..(n - 1) : ~CanAllocate(S.cluster[k], S.jobs[id])
    ELSE 0

PreemptAndAllocate(S, i, id, now, sched) ==
    LET vid == S.running[i][2]
        n == S.running[i][3]
        victim == S.jobs[vid]
        rest == SubSeq(S.running, 1, i - 1)
                  \o SubSeq(S.running, i + 1, Len(S.running))
        R == Heapify("running", rest)
    IN  IF R.err THEN [S EXCEPT !.running = R.h, !.err = TRUE]
        ELSE LET S1 == [S EXCEPT
                          !.running = R.h,
                          !.cluster[n] = NodeRelease(@, vid, victim),
                          !.jobs[vid] = PreemptVictim(victim, now),
                          !.ready = Append(@, vid),
                          !.log = Append(@, LogEntry("preempt", id, n, vid, S))]
             IN  AllocateJob(S1, n, id, now, sched)

\* one turn of schedule's loop over the jobs
ScheduleJob(S, id, now, sched) ==
    LET n == FirstFit(S, id)
    IN  IF n # 0 THEN AllocateJob(S, n, id, now, sched)
        ELSE LET v == FindVictim(S, id, sched)
             IN  IF v # 0 THEN PreemptAndAllocate(S, v, id, now, sched)
                 ELSE [S EXCEPT !.log = Append(@, LogEntry("wait", id, 0, 0, S))]

RECURSIVE ScheduleLoop(_, _, _, _)
ScheduleLoop(S, todo, now, sched) ==
    IF todo = <<>> \/ S.err THEN S
    ELSE ScheduleLoop(ScheduleJob(S, Head(todo), now, sched), Tail(todo),
                      now, sched)

\* FIFOScheduler.schedule / ShortestTimeFirstScheduler.schedule
Schedule(S, sorted_jobs, now, sched) ==
    IF sched = "fifo" THEN ScheduleLoop(S, sorted_jobs, now, sched)
    ELSE ScheduleLoop(S, SortInto("stf", S.jobs, now, <<>>, sorted_jobs),
                      now, sched)

\* ----------------------------------------------------------------- state
VARIABLES
    config,              \* the SimulationConfig of the run (and the job cap)
    clock,               \* time.time()
    variant,             \* "run" (main.py) or "live" (run_live under server.py)
    scheduler,           \* "fifo" or "stf" (server.py start_simulation)
    cluster,             \* engine.cluster: sequence of nodes
    jobs,                \* every Job created so far; its id is its index
    submitted,           \* tenant -> Tenant.submitted_jobs
    completed,           \* tenant -> Tenant.completed_jobs
    job_queue,           \* engine.job_queue, the hand-off channel
    event_queue,         \* EventQueue._queue
    counter,             \* event._counter_gen
    global_ready_queue,  \* engine.global_ready_queue
    running_jobs,        \* engine.running_jobs (heap list)
    pc,                  \* where the engine loop stands
    now,                 \* run(): the iteration's "now"
    start,               \* run()/run_live(): start / start_wall
    gen_running,         \* JobGenerator.running
    gen_pc,              \* where the producer thread stands
    gen_start,           \* _generate_loop: start_wall
    stop_signal,         \* server.stop_signal
    last_state,          \* run_live: last_state, <<>> for None
    results,             \* <<what _collect_results returned>>, <<>> before
    sched_log,           \* what the last scheduling pass logged
    ran,                 \* per job: time spent in state "running" so far
    waited,              \* per job: time spent in the ready queue so far
    synced,              \* per job: "ran" when remaining_time was last written
    handled,             \* (time, seq) of the event handled last
    span,                \* snapshots emitted since the last job event
    call,                \* drivers: the call made last and what it returned
    threads,             \* generator driver: where each spawned thread stands
    thread               \* generator driver: JobGenerator.thread (0: unset)

vars == <<config, clock, variant, scheduler, cluster, jobs, submitted, completed,
          job_queue, event_queue, counter, global_ready_queue, running_jobs,
          pc, now, start, gen_running, gen_pc, gen_start, stop_signal,
          last_state, results, sched_log, ran, waited, synced, handled,
          span, call, threads, thread>>

\* what only the drivers of single components write
harness == <<call, threads, thread>>

JobIds == 1..Len(jobs)
Tenants == 1..config.num_tenants

EngineState ==
    [jobs |-> jobs, cluster |-> cluster, ready |-> global_ready_queue,
     running |-> running_jobs, completed |-> completed, err |-> FALSE,
     log |-> <<>>]

\* make_event: (time, next(_counter_gen), Event(time, type, payload))
make_event(time, seq, type, payload) ==
    <<time, seq, [type |-> type, payload |-> payload]>>

\* -------------------------------------------------------------- the engine
\* _ingest_new_jobs: drain the channel; E = [jobs, events, counter]
RECURSIVE IngestLoop(_, _, _)
IngestLoop(E, queue, t) ==
    IF queue = <<>> THEN E
    ELSE LET id == Head(queue)
         IN  IngestLoop(
               [jobs |-> [E.jobs EXCEPT ![id].arrival_time = t],
                events |-> HeapPush("event", E.events,
                                    make_event(t, E.counter, "arrival", id)).h,
                counter |-> E.counter + 1],
               Tail(queue), t)

\* _handle_arrival, the job's fields
ArrivalFields(job, t) ==
    [job EXCEPT !.arrival_time = t, !.last_start_time = None,
                !.preemption_time = None]

\* a scheduling that preempts only when the engine's config enables it
ScheduleJobNoVictim(S, id, t, sched) ==
    LET n == FirstFit(S, id)
    IN  IF n # 0 THEN AllocateJob(S, n, id, t, sched)
        ELSE [S EXCEPT !.log = Append(@, LogEntry("wait", id, 0, 0, S))]

RECURSIVE ScheduleLoopNoVictim(_, _, _, _)
ScheduleLoopNoVictim(S, todo, t, sched) ==
    IF todo = <<>> \/ S.err THEN S
    ELSE ScheduleLoopNoVictim(ScheduleJobNoVictim(S, Head(todo), t, sched),
                              Tail(todo), t, sched)

HandleSchedulingByFlag(S, t, sched) ==
    IF S.ready = <<>> THEN S
    ELSE IF S.config.preemption_enabled
    THEN Schedule(S, sort_ready_queue(S.jobs, S.ready, t), t, sched)
    ELSE ScheduleLoopNoVictim(
           S,
           IF sched = "fifo" THEN sort_ready_queue(S.jobs, S.ready, t)
           ELSE SortInto("stf", S.jobs, t, <<>>,
                         sort_ready_queue(S.jobs, S.ready, t)),
           t, sched)

\* _handle_scheduling
HandleScheduling(S, t, sched) ==
    IF S.ready = <<>> THEN S
    ELSE Schedule(S, sort_ready_queue(S.jobs, S.ready, t), t, sched)

\* run(), step 3: remaining_time recomputed from duration
AdvanceJob(job, t) ==
    IF job.state = "running" /\ job.last_start_time # None
    THEN [job EXCEPT !.remaining_time =
                        Max(0, job.duration - (t - job.last_start_time))]
    ELSE job

\* _handle_running_jobs: the update of one popped entry's job
SweepJob(job, t) ==
    IF job.state = "running" /\ job.last_start_time # None
    THEN [job EXCEPT !.remaining_time =
                        Max(0, @ - (t - job.last_start_time))]
    ELSE job

\* _handle_completion ("job in node.running_jobs" compares a Job with the
\* stored id strings and is never true; node.release does the removal)
HandleCompletion(S, id, n, finish_time) ==
    [S EXCEPT
       !.cluster[n] = NodeRelease(@, id, S.jobs[id]),
       !.jobs[id] = [@ EXCEPT !.state = "completed",
                              !.end_time = finish_time,
                              !.remaining_time = 0],
       !.completed[S.jobs[id].tenant_id] = Append(@, id)]

\* _handle_running_jobs: the while loop, then the heapify of updated_heap
RECURSIVE SweepLoop(_, _, _)
SweepLoop(S, updated, t) ==
    IF S.err THEN S
    ELSE IF S.running = <<>>
    THEN LET R == Heapify("running", updated)
         IN  [S EXCEPT !.running = R.h, !.err = R.err]
    ELSE LET P == HeapPop("running", S.running)
             id == P.item[2]
             n == P.item[3]
             S1 == [S EXCEPT !.running = P.h,
                             !.jobs[id] = SweepJob(@, t)]
         IN  IF P.err THEN [S EXCEPT !.running = P.h, !.err = TRUE]
             ELSE IF S1.jobs[id].remaining_time <= 0
             THEN SweepLoop(HandleCompletion(S1, id, n, t), updated, t)
             ELSE LET U == HeapPush("running", updated,
                              <<t + S1.jobs[id].remaining_time, id, n>>)
                  IN  IF U.err THEN [S1 EXCEPT !.err = TRUE]
                      ELSE SweepLoop(S1, U.h, t)

HandleRunningJobs(S, t) == SweepLoop(S, <<>>, t)

\* Tenant.avg_wait_time as the fraction <<total_wait, count>>
RECURSIVE SumStartWait(_, _)
SumStartWait(J, ids) ==
    IF ids = <<>> THEN 0
    ELSE (IF J[Head(ids)].start_time # None
          THEN J[Head(ids)].start_time - J[Head(ids)].arrival_time
          ELSE 0) + SumStartWait(J, Tail(ids))

AvgWaitTime(J, done) ==
    IF done = <<>> THEN <<0, 1>> ELSE <<SumStartWait(J, done), Len(done)>>

\* _collect_results
CollectResults ==
    [throughput |-> [t \in Tenants |-> Len(completed[t])],
     avg_wait |-> [t \in Tenants |-> AvgWaitTime(jobs, completed[t])]]

RECURSIVE CompletedCount(_)
CompletedCount(t) ==
    IF t = 0 THEN 0 ELSE Len(completed[t]) + CompletedCount(t - 1)

\* run_live: the state compared with last_state
LiveState ==
    [queue_len |-> Len(global_ready_queue),
     running_jobs |-> [i \in 1..Len(running_jobs) |->
                          <<running_jobs[i][2],
                            jobs[running_jobs[i][2]].tenant_id>>],
     completed_jobs |-> CompletedCount(config.num_tenants)]

\* ------------------------------------------------------------------ Init
InitWith(profiles) ==
    /\ config \in profiles
    /\ clock = T0
    /\ variant \in {"run", "live"}
    /\ scheduler \in {"fifo", "stf"}
    /\ cluster = [n \in 1..config.cluster_nodes |->
                     NewNode(config.per_node_cpu, config.per_node_ram,
                             config.per_node_gpus)]
    /\ jobs = <<>>
    /\ submitted = [t \in 1..config.num_tenants |-> <<>>]
    /\ completed = [t \in 1..config.num_tenants |-> <<>>]
    /\ job_queue = <<>>
    /\ event_queue = <<>>
    /\ counter = 0
    /\ global_ready_queue = <<>>
    /\ running_jobs = <<>>
    /\ pc = "start"
    /\ now = None
    /\ start = None
    /\ gen_running = FALSE
    /\ gen_pc = "idle"
    /\ gen_start = None
    /\ stop_signal = FALSE
    /\ last_state = <<>>
    /\ results = <<>>
    /\ sched_log = <<>>
    /\ ran = <<>>
    /\ waited = <<>>
    /\ synced = <<>>
    /\ handled = <<0, -1>>
    /\ span = 0
    /\ call = <<"engine">>
    /\ threads = <<>>
    /\ thread = 0

\* The runs explored.  main.py's cluster: one node, cpu 2, ram 2048 (2 units),
\* no gpus; cpu requests 1..2.  "max_jobs" caps what the producer hands off in
\* the run.
MainConfig ==
    [cluster_nodes |-> 1, per_node_cpu |-> 2, per_node_ram |-> 2,
     per_node_gpus |-> 0, num_tenants |-> 1,
     cpu_request_range |-> 1..2, ram_request_range |-> 1..1,
     gpu_request_range |-> 0..0, priorities |-> {"low", "med", "high"},
     duration_range |-> 1..MaxDuration, max_jobs |-> MaxJobs - 1,
     runtime_seconds |-> RuntimeSeconds, preemption_enabled |-> FALSE]

\* every job asks for the whole node, so a third arrival can resume a victim
WholeNodeConfig ==
    [MainConfig EXCEPT !.cpu_request_range = 2..2,
                       !.priorities = {"low", "high"},
                       !.max_jobs = MaxJobs]

Init == InitWith({MainConfig, WholeNodeConfig})

\* bookkeeping of the properties: a job whose remaining_time step 3 or the
\* sweep writes (it is in the heap, "running", with a last_start_time)
Written(J, heap, i) ==
    /\ \E k \in 1..Len(heap) : heap[k][2] = i
    /\ J[i].state = "running"
    /\ J[i].last_start_time # None

\* bookkeeping of the properties: span is -1 while the iteration has seen a
\* job arrive, start, be preempted or complete, and otherwise counts the
\* snapshots yielded since the last such iteration (2: two or more)
SpanAfterEmit == IF span = -1 THEN -1 ELSE IF span >= 1 THEN 2 ELSE span + 1

\* --------------------------------------------------------------- actions
\* Where time passes for the engine: in the sleep that ends an iteration (the
\* top of the loop) and between run()'s reading of "now" and the draining of
\* the channel.  The handlers of one iteration read one clock value.
TickAt == {"loop", "ingest"}

\* Where the producer thread's steps are taken.  The engine reads the channel
\* only in _ingest_new_jobs and writes the running flag only in stop(); a
\* producer step anywhere else in the iteration commutes with the engine's
\* steps up to the next top of the loop.
GenAt == {"loop", "join"}

\* time passes; a job in state "running" receives service
Tick ==
    /\ clock < MaxTime(config)
    /\ pc \in TickAt
    /\ clock' = clock + 1
    /\ ran' = [i \in JobIds |->
                 IF jobs[i].state = "running" THEN ran[i] + 1 ELSE ran[i]]
    /\ waited' = [i \in JobIds |->
                    IF InSeq(i, global_ready_queue) THEN waited[i] + 1
                    ELSE waited[i]]
    /\ UNCHANGED <<harness, synced, handled, span, config, variant, scheduler, cluster, jobs, submitted, completed,
                   job_queue, event_queue, counter, global_ready_queue,
                   running_jobs, pc, now, start, gen_running, gen_pc,
                   gen_start, stop_signal, last_state, results,
                   sched_log>>

\* run()/run_live(): job_generator.start(); start = time.time().  The new
\* thread takes its start_wall and enters its loop (running is True and
\* runtime_seconds > 0), up to its first sleep.
Start ==
    /\ pc = "start"
    /\ gen_running' = TRUE
    /\ gen_start' = clock
    /\ gen_pc' = "sleep"
    /\ start' = clock
    /\ pc' = "loop"
    /\ UNCHANGED <<harness, waited, synced, handled, span, config, clock, variant, scheduler, cluster, jobs, submitted,
                   completed, job_queue, event_queue, counter,
                   global_ready_queue, running_jobs, now,
                   stop_signal, last_state, results, sched_log, ran>>

\* a loop that never polls the stop flag
LoopCheckNoPoll ==
    /\ pc = "loop"
    /\ IF clock - start <= config.runtime_seconds
       THEN /\ pc' = "ingest"
            /\ now' = IF variant = "run" THEN clock ELSE now
       ELSE /\ pc' = "stop"
            /\ now' = now
    /\ span' = IF pc' = "ingest" /\ span = -1 THEN 0 ELSE span
    /\ UNCHANGED <<harness, waited, synced, handled, config, clock, variant, scheduler, cluster, jobs, submitted,
                   completed, job_queue, event_queue, counter,
                   global_ready_queue, running_jobs, start, gen_running,
                   gen_pc, gen_start, stop_signal, last_state,
                   results, sched_log, ran>>

\* the while condition, run_live's stop-flag poll, run()'s "now"
LoopCheck ==
    /\ pc = "loop"
    /\ IF clock - start <= config.runtime_seconds /\ ~(variant = "live" /\ stop_signal)
       THEN /\ pc' = "ingest"
            /\ now' = IF variant = "run" THEN clock ELSE now
       ELSE /\ pc' = "stop"
            /\ now' = now
    /\ span' = IF pc' = "ingest" /\ span = -1 THEN 0 ELSE span
    /\ UNCHANGED <<harness, waited, synced, handled, config, clock, variant, scheduler, cluster, jobs, submitted,
                   completed, job_queue, event_queue, counter,
                   global_ready_queue, running_jobs, start, gen_running,
                   gen_pc, gen_start, stop_signal, last_state,
                   results, sched_log, ran>>

Ingest ==
    /\ pc = "ingest"
    /\ LET E == IngestLoop([jobs |-> jobs, events |-> event_queue,
                            counter |-> counter], job_queue, clock)
       IN  /\ jobs' = E.jobs
           /\ event_queue' = E.events
           /\ counter' = E.counter
    /\ job_queue' = <<>>
    /\ pc' = "dispatch"
    /\ UNCHANGED <<harness, waited, synced, handled, span, config, clock, variant, scheduler, cluster, submitted, completed,
                   global_ready_queue, running_jobs, now, start, gen_running,
                   gen_pc, gen_start, stop_signal, last_state,
                   results, sched_log, ran>>

\* the dispatch loop's condition: peek().time <= now (run) / time.time() (live)
EventDue ==
    /\ event_queue # <<>>
    /\ event_queue[1][1] <= (IF variant = "run" THEN now ELSE clock)

\* _handle_event on a popped ARRIVAL
DispatchArrival ==
    /\ pc = "dispatch"
    /\ EventDue
    /\ event_queue[1][3].type = "arrival"
    /\ LET P == HeapPop("event", event_queue)
           id == P.item[3].payload
       IN  /\ jobs' = [jobs EXCEPT ![id] = ArrivalFields(@, clock)]
           /\ global_ready_queue' = Append(global_ready_queue, id)
           /\ event_queue' = HeapPush("event", P.h,
                                make_event(clock, counter, "scheduling", None)).h
           /\ counter' = counter + 1
    /\ handled' = <<event_queue[1][1], event_queue[1][2]>>
    /\ span' = -1
    /\ UNCHANGED <<harness, waited, synced, config, clock, variant, scheduler, cluster, submitted, completed,
                   job_queue, running_jobs, pc, now, start, gen_running,
                   gen_pc, gen_start, stop_signal, last_state,
                   results, sched_log, ran>>

\* _handle_event on a popped SCHEDULING
DispatchScheduling ==
    /\ pc = "dispatch"
    /\ EventDue
    /\ event_queue[1][3].type = "scheduling"
    /\ LET P == HeapPop("event", event_queue)
           S == HandleScheduling(EngineState, clock, scheduler)
       IN  /\ event_queue' = P.h
           /\ jobs' = S.jobs
           /\ cluster' = S.cluster
           /\ global_ready_queue' = S.ready
           /\ running_jobs' = S.running
           /\ sched_log' = S.log
           /\ synced' = [i \in JobIds |->
                           IF \E k \in 1..Len(S.log) :
                                 i \in {S.log[k].job, S.log[k].victim}
                                   /\ S.log[k].kind # "wait"
                           THEN ran[i] ELSE synced[i]]
           /\ span' = IF \E k \in 1..Len(S.log) : S.log[k].kind # "wait"
                      THEN -1 ELSE span
           /\ handled' = <<event_queue[1][1], event_queue[1][2]>>
           /\ pc' = IF S.err THEN "crashed" ELSE pc
    /\ UNCHANGED <<harness, waited, config, clock, variant, scheduler, submitted, completed, job_queue,
                   counter, now, start, gen_running, gen_pc, gen_start,
                   stop_signal, last_state, results, ran>>

DispatchDone ==
    /\ pc = "dispatch"
    /\ ~EventDue
    /\ pc' = IF variant = "run" THEN "advance" ELSE "sweep"
    /\ UNCHANGED <<harness, waited, synced, handled, span, config, clock, variant, scheduler, cluster, jobs, submitted,
                   completed, job_queue, event_queue, counter,
                   global_ready_queue, running_jobs, now, start, gen_running,
                   gen_pc, gen_start, stop_signal, last_state,
                   results, sched_log, ran>>

\* run(), step 3
AdvanceRunning ==
    /\ pc = "advance"
    /\ jobs' = [i \in JobIds |->
                  IF \E k \in 1..Len(running_jobs) : running_jobs[k][2] = i
                  THEN AdvanceJob(jobs[i], now) ELSE jobs[i]]
    /\ pc' = "sweep"
    /\ synced' = [i \in JobIds |->
                    IF Written(jobs, running_jobs, i) THEN ran[i] ELSE synced[i]]
    /\ UNCHANGED <<harness, waited, handled, span, config, clock, variant, scheduler, cluster, submitted, completed,
                   job_queue, event_queue, counter, global_ready_queue,
                   running_jobs, now, start, gen_running, gen_pc, gen_start,
                   stop_signal, last_state, results, sched_log, ran>>

\* a step 4 that asks for a scheduling pass when a job has completed
SweepAndSchedule ==
    /\ pc = "sweep"
    /\ LET S == HandleRunningJobs(EngineState, clock)
       IN  /\ jobs' = S.jobs
           /\ cluster' = S.cluster
           /\ running_jobs' = S.running
           /\ completed' = S.completed
           /\ synced' = [i \in JobIds |->
                           IF Written(jobs, running_jobs, i) THEN ran[i]
                           ELSE synced[i]]
           /\ span' = IF S.completed # completed THEN -1 ELSE span
           /\ pc' = IF S.err THEN "crashed"
                    ELSE IF variant = "run" THEN "loop" ELSE "emit"
           /\ event_queue' =
                 IF S.completed # completed
                 THEN HeapPush("event", event_queue,
                               make_event(clock, counter, "scheduling", None)).h
                 ELSE event_queue
           /\ counter' = IF S.completed # completed THEN counter + 1
                         ELSE counter
    /\ UNCHANGED <<harness, waited, handled, config, clock, variant, scheduler, submitted, job_queue,
                   global_ready_queue, now, start,
                   gen_running, gen_pc, gen_start, stop_signal, last_state, results, sched_log, ran>>

\* step 4, then (run) the sleep that ends the iteration
Sweep ==
    /\ pc = "sweep"
    /\ LET S == HandleRunningJobs(EngineState, clock)
       IN  /\ jobs' = S.jobs
           /\ cluster' = S.cluster
           /\ running_jobs' = S.running
           /\ completed' = S.completed
           /\ synced' = [i \in JobIds |->
                           IF Written(jobs, running_jobs, i) THEN ran[i]
                           ELSE synced[i]]
           /\ span' = IF S.completed # completed THEN -1 ELSE span
           /\ pc' = IF S.err THEN "crashed"
                    ELSE IF variant = "run" THEN "loop" ELSE "emit"
    /\ UNCHANGED <<harness, waited, handled, config, clock, variant, scheduler, submitted, job_queue,
                   event_queue, counter, global_ready_queue, now, start,
                   gen_running, gen_pc, gen_start, stop_signal, last_state, results, sched_log, ran>>

\* run_live: state == last_state, nothing is yielded
EmitSkip ==
    /\ pc = "emit"
    /\ <<LiveState>> = last_state
    /\ pc' = "loop"
    /\ UNCHANGED <<harness, waited, synced, handled, span, config, clock, variant, scheduler, cluster, jobs, submitted,
                   completed, job_queue, event_queue, counter,
                   global_ready_queue, running_jobs, now, start, gen_running,
                   gen_pc, gen_start, stop_signal, last_state,
                   results, sched_log, ran>>

\* run_live yields a snapshot and simulation_ws consumes it
EmitDeliver ==
    /\ pc = "emit"
    /\ <<LiveState>> # last_state
    /\ ~stop_signal
    /\ last_state' = <<LiveState>>
    /\ pc' = "loop"
    /\ span' = SpanAfterEmit
    /\ UNCHANGED <<harness, waited, synced, handled, config, clock, variant, scheduler, cluster, jobs, submitted,
                   completed, job_queue, event_queue, counter,
                   global_ready_queue, running_jobs, now, start, gen_running,
                   gen_pc, gen_start, stop_signal, results,
                   sched_log, ran>>

\* run_live yields a snapshot; simulation_ws sees stop_signal and breaks out
\* of its "async for"; its finally collects the results and the suspended
\* run_live is never resumed
EmitBreak ==
    /\ pc = "emit"
    /\ <<LiveState>> # last_state
    /\ stop_signal
    /\ results' = <<CollectResults>>
    /\ pc' = "abandoned"
    /\ span' = SpanAfterEmit
    /\ UNCHANGED <<harness, waited, synced, handled, config, clock, variant, scheduler, cluster, jobs, submitted,
                   completed, job_queue, event_queue, counter,
                   global_ready_queue, running_jobs, now, start, gen_running,
                   gen_pc, gen_start, stop_signal, last_state,
                   sched_log, ran>>

\* run_live yields a snapshot; the client is gone, send_text raises and
\* simulation_ws's finally collects the results
EmitSendFails ==
    /\ pc = "emit"
    /\ <<LiveState>> # last_state
    /\ ~stop_signal
    /\ results' = <<CollectResults>>
    /\ pc' = "abandoned"
    /\ span' = SpanAfterEmit
    /\ UNCHANGED <<harness, waited, synced, handled, config, clock, variant, scheduler, cluster, jobs, submitted,
                   completed, job_queue, event_queue, counter,
                   global_ready_queue, running_jobs, now, start, gen_running,
                   gen_pc, gen_start, stop_signal, last_state,
                   sched_log, ran>>

\* JobGenerator.stop(): running = False ...
StopGenerator ==
    /\ pc = "stop"
    /\ gen_running' = FALSE
    /\ pc' = "join"
    /\ UNCHANGED <<harness, waited, synced, handled, span, config, clock, variant, scheduler, cluster, jobs, submitted,
                   completed, job_queue, event_queue, counter,
                   global_ready_queue, running_jobs, now, start, gen_pc,
                   gen_start, stop_signal, last_state, results,
                   sched_log, ran>>

\* ... thread.join()
Join ==
    /\ pc = "join"
    /\ gen_pc = "done"
    /\ pc' = "collect"
    /\ UNCHANGED <<harness, waited, synced, handled, span, config, clock, variant, scheduler, cluster, jobs, submitted,
                   completed, job_queue, event_queue, counter,
                   global_ready_queue, running_jobs, now, start, gen_running,
                   gen_pc, gen_start, stop_signal, last_state,
                   results, sched_log, ran>>

\* run(): return self._collect_results(); live: simulation_ws's finally
Collect ==
    /\ pc = "collect"
    /\ results' = <<CollectResults>>
    /\ pc' = "done"
    /\ UNCHANGED <<harness, waited, synced, handled, span, config, clock, variant, scheduler, cluster, jobs, submitted,
                   completed, job_queue, event_queue, counter,
                   global_ready_queue, running_jobs, now, start, gen_running,
                   gen_pc, gen_start, stop_signal, last_state,
                   sched_log, ran>>

\* an exception left run_live: simulation_ws's finally still collects
CrashFinally ==
    /\ pc = "crashed"
    /\ variant = "live"
    /\ results' = <<CollectResults>>
    /\ pc' = "failed"
    /\ UNCHANGED <<harness, waited, synced, handled, span, config, clock, variant, scheduler, cluster, jobs, submitted,
                   completed, job_queue, event_queue, counter,
                   global_ready_queue, running_jobs, now, start, gen_running,
                   gen_pc, gen_start, stop_signal, last_state,
                   sched_log, ran>>

\* POST /stop-simulation
StopSimulation ==
    /\ variant = "live"
    /\ pc \in {"loop", "emit"}
    /\ ~stop_signal
    /\ stop_signal' = TRUE
    /\ UNCHANGED <<harness, waited, synced, handled, span, config, clock, variant, scheduler, cluster, jobs, submitted,
                   completed, job_queue, event_queue, counter,
                   global_ready_queue, running_jobs, pc, now, start,
                   gen_running, gen_pc, gen_start, last_state,
                   results, sched_log, ran>>

\* ------------------------------------------------------ the producer thread
GenMayRun == gen_running /\ clock - gen_start < config.runtime_seconds

\* the sleep ends and the check after it lets the loop go on
GenWake ==
    /\ gen_pc = "sleep"
    /\ pc \in GenAt
    /\ GenMayRun
    /\ Len(jobs) < config.max_jobs
    /\ gen_pc' = "make"
    /\ UNCHANGED <<harness, waited, synced, handled, span, config, clock, variant, scheduler, cluster, jobs, submitted,
                   completed, job_queue, event_queue, counter,
                   global_ready_queue, running_jobs, pc, now, start,
                   gen_running, gen_start, stop_signal, last_state,
                   results, sched_log, ran>>

\* the sleep ends and the check after it breaks out of the loop
GenExit ==
    /\ gen_pc = "sleep"
    /\ pc \in GenAt
    /\ ~GenMayRun
    /\ gen_pc' = "done"
    /\ UNCHANGED <<harness, waited, synced, handled, span, config, clock, variant, scheduler, cluster, jobs, submitted,
                   completed, job_queue, event_queue, counter,
                   global_ready_queue, running_jobs, pc, now, start,
                   gen_running, gen_start, stop_signal, last_state,
                   results, sched_log, ran>>

\* the Job is built, appended to its tenant's submitted list and put into
\* the channel; then the while condition is evaluated again
GenPut ==
    /\ gen_pc = "make"
    /\ pc \in GenAt
    /\ \E t \in Tenants, c \in config.cpu_request_range,
         r \in config.ram_request_range, g \in config.gpu_request_range,
         p \in config.priorities, d \in config.duration_range :
          /\ jobs' = Append(jobs, NewJob(t, c, r, g, p, clock, d))
          /\ submitted' = [submitted EXCEPT ![t] = Append(@, Len(jobs) + 1)]
    /\ ran' = Append(ran, 0)
    /\ job_queue' = Append(job_queue, Len(jobs) + 1)
    /\ gen_pc' = IF GenMayRun THEN "sleep" ELSE "done"
    /\ waited' = Append(waited, 0)
    /\ synced' = Append(synced, 0)
    /\ UNCHANGED <<harness, handled, span, config, clock, variant, scheduler, cluster, completed, event_queue,
                   counter, global_ready_queue, running_jobs, pc, now, start,
                   gen_running, gen_start, stop_signal, last_state,
                   results, sched_log>>

Next ==
    \/ Tick
    \/ Start \/ LoopCheck \/ Ingest
    \/ DispatchArrival \/ DispatchScheduling \/ DispatchDone
    \/ AdvanceRunning \/ Sweep
    \/ EmitSkip \/ EmitDeliver \/ EmitBreak \/ EmitSendFails
    \/ StopGenerator \/ Join \/ Collect \/ CrashFinally
    \/ StopSimulation
    \/ GenWake \/ GenExit \/ GenPut

Spec == Init /\ [][Next]_vars

\* ------------------------------------------------- drivers of components
\* A driver calls one component directly, as a test or another caller of
\* the component would; the engine stands still (pc = "driver").
MaxStarts == 2

Idle ==
    /\ config = MainConfig
    /\ clock = T0
    /\ variant = "run"
    /\ scheduler = "fifo"
    /\ cluster = [n \in 1..config.cluster_nodes |->
                     NewNode(config.per_node_cpu, config.per_node_ram,
                             config.per_node_gpus)]
    /\ jobs = <<>>
    /\ submitted = [t \in 1..config.num_tenants |-> <<>>]
    /\ completed = [t \in 1..config.num_tenants |-> <<>>]
    /\ job_queue = <<>>
    /\ event_queue = <<>>
    /\ counter = 0
    /\ global_ready_queue = <<>>
    /\ running_jobs = <<>>
    /\ pc = "driver"
    /\ now = None
    /\ start = None
    /\ gen_running = FALSE
    /\ gen_pc = "idle"
    /\ gen_start = None
    /\ stop_signal = FALSE
    /\ last_state = <<>>
    /\ results = <<>>
    /\ sched_log = <<>>
    /\ ran = <<>>
    /\ waited = <<>>
    /\ synced = <<>>
    /\ handled = <<0, -1>>
    /\ span = 0
    /\ threads = <<>>
    /\ thread = 0

\* what the engine's fields keep while a driver runs
engine == <<config, variant, scheduler, submitted, completed,
            global_ready_queue, running_jobs, pc, now, start, gen_pc,
            gen_start, stop_signal, last_state, results, sched_log, ran,
            waited, synced, handled, span>>

\* ---- JobGenerator under any number of start() calls and one stop()
GenInit == Idle /\ call = <<"idle">>

\* start(): running = True; a new Thread replaces self.thread and is started
\* (it takes its start_wall and sleeps)
GenStart ==
    /\ call \in {<<"idle">>, <<"started">>}
    /\ Len(threads) < MaxStarts
    /\ gen_running' = TRUE
    /\ threads' = Append(threads, [at |-> "sleep", start_wall |-> clock])
    /\ thread' = Len(threads) + 1
    /\ call' = <<"started">>
    /\ UNCHANGED <<engine, clock, cluster, jobs, job_queue, event_queue,
                   counter>>

ThreadMayRun(i) ==
    gen_running /\ clock - threads[i].start_wall < config.runtime_seconds

\* a thread's sleep ends and the check after it lets the loop go on
GenThreadWake ==
    \E i \in 1..Len(threads) :
        /\ threads[i].at = "sleep"
        /\ ThreadMayRun(i)
        /\ Len(jobs) < MaxJobs
        /\ threads' = [threads EXCEPT ![i].at = "make"]
        /\ UNCHANGED <<engine, clock, cluster, jobs, job_queue, event_queue,
                       counter, gen_running, thread, call>>

\* a loop that leaves only when runtime_seconds has elapsed
GenThreadExitOnTimeout ==
    \E i \in 1..Len(threads) :
        /\ threads[i].at = "sleep"
        /\ clock - threads[i].start_wall >= config.runtime_seconds
        /\ threads' = [threads EXCEPT ![i].at = "done"]
        /\ UNCHANGED <<engine, clock, cluster, jobs, job_queue, event_queue,
                       counter, gen_running, thread, call>>

\* a thread's sleep ends and the check after it breaks out of the loop
GenThreadExit ==
    \E i \in 1..Len(threads) :
        /\ threads[i].at = "sleep"
        /\ ~ThreadMayRun(i)
        /\ threads' = [threads EXCEPT ![i].at = "done"]
        /\ UNCHANGED <<engine, clock, cluster, jobs, job_queue, event_queue,
                       counter, gen_running, thread, call>>

\* a thread builds a Job and puts it into the channel, then evaluates its
\* while condition
GenThreadPut ==
    \E i \in 1..Len(threads) :
        /\ threads[i].at = "make"
        /\ jobs' = Append(jobs, NewJob(1, 1, 1, 0, "low", clock, 1))
        /\ job_queue' = Append(job_queue, Len(jobs) + 1)
        /\ threads' = [threads EXCEPT
                         ![i].at = IF ThreadMayRun(i) THEN "sleep" ELSE "done"]
        /\ UNCHANGED <<engine, clock, cluster, event_queue, counter,
                       gen_running, thread, call>>

\* stop(): running = False ...
GenStop ==
    /\ call = <<"started">>
    /\ gen_running' = FALSE
    /\ call' = <<"joining">>
    /\ UNCHANGED <<engine, clock, cluster, jobs, job_queue, event_queue,
                   counter, threads, thread>>

\* ... self.thread.join() returns: the thread started last has finished
GenJoined ==
    /\ call = <<"joining">>
    /\ threads[thread].at = "done"
    /\ call' = <<"stopped">>
    /\ UNCHANGED <<engine, clock, cluster, jobs, job_queue, event_queue,
                   counter, gen_running, threads, thread>>

GenTick ==
    /\ clock < MaxTime(config)
    /\ clock' = clock + 1
    /\ UNCHANGED <<engine, cluster, jobs, job_queue, event_queue, counter,
                   gen_running, threads, thread, call>>

GenNext ==
    \/ GenStart \/ GenThreadWake \/ GenThreadExit \/ GenThreadPut
    \/ GenStop \/ GenJoined \/ GenTick

GenSpec == GenInit /\ [][GenNext]_vars

\* ---- JobGenerator under one start() and one stop(); the stop() call keeps
\* the length the channel had when it cleared the flag
OnceInit == Idle /\ call = <<"once">>

OnceStart ==
    /\ call = <<"once">>
    /\ gen_running' = TRUE
    /\ threads' = <<[at |-> "sleep", start_wall |-> clock]>>
    /\ thread' = 1
    /\ call' = <<"running">>
    /\ UNCHANGED <<engine, clock, cluster, jobs, job_queue, event_queue,
                   counter>>

\* the thread builds a Job, appends it to its tenant's submitted list and
\* puts it into the channel, then evaluates its while condition
OncePut ==
    /\ Len(threads) = 1
    /\ threads[1].at = "make"
    /\ \E t \in Tenants, p \in config.priorities :
          /\ jobs' = Append(jobs, NewJob(t, 1, 1, 0, p, clock, 1))
          /\ submitted' = [submitted EXCEPT ![t] = Append(@, Len(jobs) + 1)]
    /\ job_queue' = Append(job_queue, Len(jobs) + 1)
    /\ threads' = [threads EXCEPT
                     ![1].at = IF ThreadMayRun(1) THEN "sleep" ELSE "done"]
    /\ UNCHANGED <<config, variant, scheduler, completed, global_ready_queue,
                   running_jobs, pc, now, start, gen_pc, gen_start,
                   stop_signal, last_state, results, sched_log, ran, waited,
                   synced, handled, span, clock, cluster, event_queue,
                   counter, gen_running, thread, call>>

\* stop(): running = False ...
OnceStop ==
    /\ call = <<"running">>
    /\ gen_running' = FALSE
    /\ call' = <<"joining", Len(job_queue)>>
    /\ UNCHANGED <<engine, clock, cluster, jobs, job_queue, event_queue,
                   counter, threads, thread>>

\* ... self.thread.join() returns when the thread has finished
OnceJoined ==
    /\ call[1] = "joining"
    /\ threads[thread].at = "done"
    /\ call' = <<"returned", call[2]>>
    /\ UNCHANGED <<engine, clock, cluster, jobs, job_queue, event_queue,
                   counter, gen_running, threads, thread>>

OnceNext ==
    \/ OnceStart \/ GenThreadWake \/ GenThreadExit \/ OncePut
    \/ OnceStop \/ OnceJoined \/ GenTick

OnceSpec == OnceInit /\ [][OnceNext]_vars

\* the producer thread and the caller of stop() are scheduled: a sleep ends,
\* a put and a join of a finished thread complete
OnceFairSpec ==
    /\ OnceSpec
    /\ WF_vars(GenThreadExit)
    /\ WF_vars(OncePut)
    /\ WF_vars(OnceJoined)

\* ---- EventQueue under any sequence of push and pop
MaxEvents == 4

QueueInit == Idle /\ call = <<"queue">>

\* push(make_event(t, ...)) with any time t
QueuePush ==
    /\ call[1] \in {"queue", "pop"}
    /\ counter < MaxEvents
    /\ \E t \in T0..T0 + 2 :
         event_queue' = HeapPush("event", event_queue,
                          make_event(t, counter, "scheduling", None)).h
    /\ counter' = counter + 1
    /\ UNCHANGED <<engine, clock, cluster, jobs, job_queue, gen_running,
                   threads, thread, call>>

\* pop(); the driver keeps what it returned and the queue it was called on
QueuePop ==
    /\ call[1] \in {"queue", "pop"}
    /\ event_queue # <<>>
    /\ LET P == HeapPop("event", event_queue)
       IN  /\ event_queue' = P.h
           /\ call' = <<"pop", P.item, event_queue>>
    /\ UNCHANGED <<engine, clock, cluster, jobs, job_queue, counter,
                   gen_running, threads, thread>>

\* an engine run (main.py's configuration), or the queue under its driver
EventInit == InitWith({MainConfig}) \/ QueueInit

EventNext == Next \/ QueuePush \/ QueuePop

EventSpec == EventInit /\ [][EventNext]_vars

\* ---- run() and run_live() side by side: two engines, each with its own
\* copies of the jobs, are handed the same jobs at the same times and run
\* their iterations at the same times.  An iteration reads one clock value.
\* An engine is a scheduling-pass record S with four more fields: events
\* (the event queue), counter, queue (the hand-off channel) and config.
PairEngine(cfg) ==
    [jobs |-> <<>>,
     cluster |-> [n \in 1..cfg.cluster_nodes |->
                     NewNode(cfg.per_node_cpu, cfg.per_node_ram,
                             cfg.per_node_gpus)],
     ready |-> <<>>, running |-> <<>>,
     completed |-> [t \in 1..cfg.num_tenants |-> <<>>],
     err |-> FALSE, log |-> <<>>,
     events |-> <<>>, counter |-> 0, queue |-> <<>>, config |-> cfg]

\* _ingest_new_jobs
IngestAll(E, t) ==
    LET I == IngestLoop([jobs |-> E.jobs, events |-> E.events,
                         counter |-> E.counter], E.queue, t)
    IN  [E EXCEPT !.jobs = I.jobs, !.events = I.events,
                  !.counter = I.counter, !.queue = <<>>]

\* the loop "while not is_empty() and peek().time <= now: _handle_event(pop())"
RECURSIVE DispatchLoop(_, _, _)
DispatchLoop(E, t, sched) ==
    IF E.err \/ E.events = <<>> THEN E
    ELSE IF E.events[1][1] > t THEN E
    ELSE LET P == HeapPop("event", E.events)
             ev == P.item[3]
         IN  IF ev.type = "arrival"
             THEN DispatchLoop(
                    [E EXCEPT
                       !.jobs[ev.payload] = ArrivalFields(@, t),
                       !.ready = Append(@, ev.payload),
                       !.events = HeapPush("event", P.h,
                                    make_event(t, E.counter, "scheduling",
                                               None)).h,
                       !.counter = @ + 1],
                    t, sched)
             ELSE DispatchLoop(
                    HandleScheduling([E EXCEPT !.events = P.h, !.log = <<>>],
                                     t, sched),
                    t, sched)

\* run(), step 3, over the entries of running_jobs
AdvanceAll(E, t) ==
    [E EXCEPT !.jobs =
       [i \in 1..Len(E.jobs) |->
          IF \E k \in 1..Len(E.running) : E.running[k][2] = i
          THEN AdvanceJob(E.jobs[i], t) ELSE E.jobs[i]]]

\* the body of the while loop of run() (steps 1 to 4) and of run_live()
\* (the same without step 3), up to the sweep
Iteration(v, E, t, sched) ==
    LET E2 == DispatchLoop(IngestAll(E, t), t, sched)
        E3 == IF v = "run" THEN AdvanceAll(E2, t) ELSE E2
    IN  IF E2.err THEN E2 ELSE HandleRunningJobs(E3, t)

PairInit ==
    /\ Idle
    /\ \E sched \in {"fifo", "stf"} :
          call = <<"pair", sched, PairEngine(config), PairEngine(config)>>

\* the producer hands the same job to both engines
PairSubmit ==
    /\ call[1] = "pair"
    /\ Len(call[3].jobs) < config.max_jobs
    /\ \E c \in config.cpu_request_range, p \in config.priorities,
         d \in config.duration_range :
          LET job == NewJob(1, c, 1, 0, p, clock, d)
              id == Len(call[3].jobs) + 1
          IN  call' = <<"pair", call[2],
                        [call[3] EXCEPT !.jobs = Append(@, job),
                                        !.queue = Append(@, id)],
                        [call[4] EXCEPT !.jobs = Append(@, job),
                                        !.queue = Append(@, id)]>>
    /\ UNCHANGED <<engine, clock, cluster, jobs, job_queue, event_queue,
                   counter, gen_running, threads, thread>>

\* both loops run one iteration at the same time
PairIterate ==
    /\ call[1] = "pair"
    /\ ~call[3].err /\ ~call[4].err
    /\ call' = <<"pair", call[2],
                 Iteration("run", call[3], clock, call[2]),
                 Iteration("live", call[4], clock, call[2])>>
    /\ UNCHANGED <<engine, clock, cluster, jobs, job_queue, event_queue,
                   counter, gen_running, threads, thread>>

PairTick ==
    /\ call[1] = "pair"
    /\ clock < MaxTime(config)
    /\ clock' = clock + 1
    /\ UNCHANGED <<engine, cluster, jobs, job_queue, event_queue, counter,
                   gen_running, threads, thread, call>>

PairNext == PairSubmit \/ PairIterate \/ PairTick

PairSpec == PairInit /\ [][PairNext]_vars

\* ---- two engines whose configs differ in preemption_enabled only, handed
\* the same jobs at the same times and iterating at the same times
FlagInit ==
    /\ Idle
    /\ \E sched \in {"fifo", "stf"}, v \in {"run", "live"} :
          call = <<"flags", sched,
                   PairEngine([config EXCEPT !.preemption_enabled = TRUE]),
                   PairEngine([config EXCEPT !.preemption_enabled = FALSE]),
                   v>>

FlagSubmit ==
    /\ call[1] = "flags"
    /\ Len(call[3].jobs) < config.max_jobs
    /\ \E c \in config.cpu_request_range, p \in config.priorities,
         d \in config.duration_range :
          LET job == NewJob(1, c, 1, 0, p, clock, d)
              id == Len(call[3].jobs) + 1
          IN  call' = <<"flags", call[2],
                        [call[3] EXCEPT !.jobs = Append(@, job),
                                        !.queue = Append(@, id)],
                        [call[4] EXCEPT !.jobs = Append(@, job),
                                        !.queue = Append(@, id)],
                        call[5]>>
    /\ UNCHANGED <<engine, clock, cluster, jobs, job_queue, event_queue,
                   counter, gen_running, threads, thread>>

FlagIterate ==
    /\ call[1] = "flags"
    /\ ~call[3].err /\ ~call[4].err
    /\ call' = <<"flags", call[2],
                 Iteration(call[5], call[3], clock, call[2]),
                 Iteration(call[5], call[4], clock, call[2]),
                 call[5]>>
    /\ UNCHANGED <<engine, clock, cluster, jobs, job_queue, event_queue,
                   counter, gen_running, threads, thread>>

FlagTick ==
    /\ call[1] = "flags"
    /\ clock < MaxTime(config)
    /\ clock' = clock + 1
    /\ UNCHANGED <<engine, cluster, jobs, job_queue, event_queue, counter,
                   gen_running, threads, thread, call>>

FlagNext == FlagSubmit \/ FlagIterate \/ FlagTick

FlagSpec == FlagInit /\ [][FlagNext]_vars

\* ---- engine runs on a cluster of two nodes of one cpu, every job asking
\* for one
TwoNodeConfig ==
    [MainConfig EXCEPT !.cluster_nodes = 2, !.per_node_cpu = 1,
                       !.cpu_request_range = 1..1,
                       !.priorities = {"low", "high"},
                       !.max_jobs = MaxJobs]

TwoNodeInit == InitWith({TwoNodeConfig})

TwoNodeSpec == TwoNodeInit /\ [][Next]_vars

\* ---- a Node under any sequence of allocate and release calls, with jobs
\* whose requests go up to one unit past the node's capacity
NodeInit == Idle /\ call = <<"node">>

NodeNewJob ==
    /\ call[1] \in {"node", "allocate", "release"}
    /\ Len(jobs) < MaxJobs
    /\ \E c \in 1..cluster[1].total_cpu + 1, r \in 1..cluster[1].total_ram,
         g \in 0..cluster[1].total_gpus + 1 :
          jobs' = Append(jobs, NewJob(1, c, r, g, "low", clock, 1))
    /\ UNCHANGED <<engine, clock, cluster, job_queue, event_queue, counter,
                   gen_running, threads, thread, call>>

\* node.allocate(job); the driver keeps the job and whether the call raised
NodeCallAllocate ==
    /\ call[1] \in {"node", "allocate", "release"}
    /\ \E id \in JobIds :
         LET R == Allocate(cluster[1], id, jobs[id])
         IN  /\ cluster' = [cluster EXCEPT ![1] = R.node]
             /\ call' = <<"allocate", id, R.raised>>
    /\ UNCHANGED <<engine, clock, jobs, job_queue, event_queue, counter,
                   gen_running, threads, thread>>

\* node.release(job)
NodeCallRelease ==
    /\ call[1] \in {"node", "allocate", "release"}
    /\ \E id \in JobIds :
         /\ cluster' = [cluster EXCEPT ![1] = NodeRelease(@, id, jobs[id])]
         /\ call' = <<"release", id>>
    /\ UNCHANGED <<engine, clock, jobs, job_queue, event_queue, counter,
                   gen_running, threads, thread>>

NodeNext == NodeNewJob \/ NodeCallAllocate \/ NodeCallRelease

NodeSpec == NodeInit /\ [][NodeNext]_vars

\* ---- metrics/fairness: jains_fairness on vectors of floats.  A float is
\* written [m, x] for m * 2^x with m a small natural number, and a vector has
\* one exponent for all its entries: sums, squares and the product with
\* len(values) are then exact in IEEE doubles, unless a square leaves the
\* doubles' range.  A quotient stands for the double nearest to it.
MaxLen == 3
MaxValue == 3

\* the doubles' range: 2^MinExp is the smallest positive double, 2^(MaxExp+1)
\* is past the largest
MinExp == -1074
MaxExp == 1023

\* the exponents tried: values near 1e-181, 1 and 1e180
Scales == {-600, 0, 600}

RECURSIVE BitLen(_)
BitLen(m) == IF m = 0 THEN 0 ELSE 1 + BitLen(m \div 2)

\* float ** 2: OverflowError past the largest double; 0.0 below half the
\* smallest (the vectors tried have no square between that and a normal one)
Square(f) ==
    LET m2 == f.m * f.m
        top == 2 * f.x + BitLen(m2) - 1
    IN  IF f.m = 0 THEN [raised |-> FALSE, m |-> 0, x |-> 0]
        ELSE IF top > MaxExp THEN [raised |-> TRUE, m |-> 0, x |-> 0]
        ELSE IF top < MinExp - 1 THEN [raised |-> FALSE, m |-> 0, x |-> 0]
        ELSE [raised |-> FALSE, m |-> m2, x |-> 2 * f.x]

RECURSIVE SumSeq(_)
SumSeq(s) == IF s = <<>> THEN 0 ELSE Head(s) + SumSeq(Tail(s))

\* jains_fairness(values), values[i] = v.m[i] * 2^v.x: whether it raised and
\* the value returned, as num / den
jains_fairness(v) ==
    LET n == Len(v.m)
        numerator == Square([m |-> SumSeq(v.m), x |-> v.x])
        squares == [i \in 1..n |-> Square([m |-> v.m[i], x |-> v.x])]
        denominator == n * SumSeq([i \in 1..n |-> squares[i].m])
    IN  IF n = 0 \/ \A i \in 1..n : v.m[i] = 0
        THEN [raised |-> FALSE, num |-> 0, den |-> 1]
        ELSE IF numerator.raised \/ \E i \in 1..n : squares[i].raised
        THEN [raised |-> TRUE, num |-> 0, den |-> 1]
        ELSE IF denominator > 0
        THEN [raised |-> FALSE, num |-> numerator.m, den |-> denominator]
        ELSE [raised |-> FALSE, num |-> 0, den |-> 1]

FairInit == Idle /\ call = <<"fair">>

\* jains_fairness(values); the driver keeps the vector and the outcome
FairCall ==
    /\ call[1] \in {"fair", "jains_fairness"}
    /\ \E n \in 0..MaxLen, x \in Scales :
         \E m \in [1..n -> 0..MaxValue] :
            LET v == [m |-> m, x |-> x]
            IN  call' = <<"jains_fairness", v, jains_fairness(v)>>
    /\ UNCHANGED <<engine, clock, cluster, jobs, job_queue, event_queue,
                   counter, gen_running, threads, thread>>

FairNext == FairCall

FairSpec == FairInit /\ [][FairNext]_vars

\* ---- run_live with a subscriber that keeps up, on a node that holds three
\* one-cpu jobs at once; durations drawn from three values of the range
LongJobsConfig ==
    [MainConfig EXCEPT !.per_node_cpu = 3, !.per_node_ram = 3,
                       !.cpu_request_range = 1..1,
                       !.priorities = {"low"},
                       !.duration_range = {5, 11, 16},
                       !.max_jobs = 3, !.runtime_seconds = 5]

LiveInit ==
    /\ InitWith({LongJobsConfig})
    /\ variant = "live"
    /\ scheduler = "fifo"

\* The iteration's last statement, "await asyncio.sleep(0.05)", taken as the
\* time unit: every iteration ends with one unit of time passing, and none
\* passes elsewhere.
Sleep ==
    /\ clock' = clock + 1
    /\ ran' = [i \in JobIds |->
                 IF jobs[i].state = "running" THEN ran[i] + 1 ELSE ran[i]]
    /\ waited' = [i \in JobIds |->
                    IF InSeq(i, global_ready_queue) THEN waited[i] + 1
                    ELSE waited[i]]

\* state == last_state: nothing is yielded; the sleep
SkipAndSleep ==
    /\ pc = "emit"
    /\ <<LiveState>> = last_state
    /\ pc' = "loop"
    /\ Sleep
    /\ UNCHANGED <<harness, synced, handled, span, config, variant, scheduler,
                   cluster, jobs, submitted, completed, job_queue,
                   event_queue, counter, global_ready_queue, running_jobs,
                   now, start, gen_running, gen_pc, gen_start, stop_signal,
                   last_state, results, sched_log>>

\* the snapshot is yielded and consumed, last_state = state; the sleep
DeliverAndSleep ==
    /\ pc = "emit"
    /\ <<LiveState>> # last_state
    /\ last_state' = <<LiveState>>
    /\ pc' = "loop"
    /\ span' = SpanAfterEmit
    /\ Sleep
    /\ UNCHANGED <<harness, synced, handled, config, variant, scheduler,
                   cluster, jobs, submitted, completed, job_queue,
                   event_queue, counter, global_ready_queue, running_jobs,
                   now, start, gen_running, gen_pc, gen_start, stop_signal,
                   results, sched_log>>

LiveNext ==
    \/ Start \/ LoopCheck \/ Ingest
    \/ DispatchArrival \/ DispatchScheduling \/ DispatchDone
    \/ Sweep
    \/ SkipAndSleep \/ DeliverAndSleep
    \/ StopGenerator \/ Join \/ Collect \/ CrashFinally
    \/ GenWake \/ GenExit \/ GenPut

LiveSpec == LiveInit /\ [][LiveNext]_vars

\* ------------------------------------------------------------ properties
\* an engine iteration has ended: the loop is back at its top
AfterIteration == pc = "loop"

RECURSIVE SumOver(_, _, _)
SumOver(J, ids, res) ==
    IF ids = <<>> THEN 0
    ELSE (CASE res = "cpu" -> J[Head(ids)].cpu
            [] res = "ram" -> J[Head(ids)].ram
            [] res = "gpus" -> J[Head(ids)].gpus
            [] res = "wait" -> J[Head(ids)].wait_time)
         + SumOver(J, Tail(ids), res)

Count(s, x) == Cardinality({i \in 1..Len(s) : s[i] = x})
HeapEntries(id) == {k \in 1..Len(running_jobs) : running_jobs[k][2] = id}
NodeSlots(id) ==
    {<<n, i>> \in (1..Len(cluster)) \X (1..MaxJobs + 1) :
        i <= Len(cluster[n].running_jobs) /\ cluster[n].running_jobs[i] = id}
LogIdx == 1..Len(sched_log)

\* C1: on every node, in every state (after every handler of either variant
\* under either scheduler), 0 <= used_r <= total_r for cpu, ram and gpus, and
\* used_r is the sum of the requests of the jobs in the node's running set.
C1_NodeAccounting ==
    \A n \in 1..Len(cluster) :
        LET nd == cluster[n]
        IN  /\ 0 <= nd.used_cpu /\ nd.used_cpu <= nd.total_cpu
            /\ 0 <= nd.used_ram /\ nd.used_ram <= nd.total_ram
            /\ 0 <= nd.used_gpus /\ nd.used_gpus <= nd.total_gpus
            /\ nd.used_cpu = SumOver(jobs, nd.running_jobs, "cpu")
            /\ nd.used_ram = SumOver(jobs, nd.running_jobs, "ram")
            /\ nd.used_gpus = SumOver(jobs, nd.running_jobs, "gpus")

\* arrivals exceed the capacity: a pass preempted a job for another and left
\* a third waiting, with the node full
C1_Witness ==
    /\ \E i \in LogIdx : sched_log[i].kind = "preempt"
    /\ global_ready_queue # <<>>
    /\ \E n \in 1..Len(cluster) : cluster[n].used_cpu = cluster[n].total_cpu

\* C2: after every iteration a job is Running iff it has a running-heap entry
\* iff it is in some node's running set; a Running job has exactly one heap
\* entry and is in exactly one running set, that of its heap entry's node.
C2_RunningConsistent ==
    AfterIteration =>
      \A j \in JobIds :
        /\ (jobs[j].state = "running") <=> (HeapEntries(j) # {})
        /\ (HeapEntries(j) # {}) <=> (NodeSlots(j) # {})
        /\ jobs[j].state = "running" =>
             /\ Cardinality(HeapEntries(j)) = 1
             /\ Cardinality(NodeSlots(j)) = 1
             /\ \A k \in HeapEntries(j) : \A sl \in NodeSlots(j) :
                    running_jobs[k][3] = sl[1]

\* an iteration ended with one job running and its victim back in the queue
C2_Witness ==
    /\ AfterIteration
    /\ \E j \in JobIds : jobs[j].state = "running"
    /\ \E j \in JobIds : jobs[j].state = "preempted"

\* the jobs the engine has taken out of the hand-off channel
Ingested == {j \in JobIds : ~InSeq(j, job_queue)}

RECURSIVE CompletedCopies(_, _)
CompletedCopies(t, j) ==
    IF t = 0 THEN 0 ELSE Count(completed[t], j) + CompletedCopies(t - 1, j)

\* C3 (as claimed): after every iteration every ingested job is in exactly
\* one of the ready queue, the running heap and a tenant's completed list.
C3_ExactlyOnePlace ==
    AfterIteration =>
      \A j \in Ingested :
        Count(global_ready_queue, j) + Cardinality(HeapEntries(j))
          + CompletedCopies(config.num_tenants, j) = 1

\* C4: under FIFO a victim has strictly lower priority than the job it is
\* preempted for; a job the pass found no room for while every running job
\* had at least its priority is logged as waiting, preempts nobody and is
\* still in the ready queue, Queued or Preempted.
C4_FifoPreemptsOnlyLower ==
    scheduler = "fifo" =>
      \A i \in LogIdx :
        LET e == sched_log[i]
        IN  /\ e.kind = "preempt" =>
                 PriorityValue(jobs[e.victim].priority)
                   < PriorityValue(jobs[e.job].priority)
            /\ (/\ e.kind \in {"preempt", "wait"}
                /\ \A k \in 1..Len(e.seen_running) :
                      PriorityValue(jobs[e.seen_running[k].job].priority)
                        >= PriorityValue(jobs[e.job].priority))
               => /\ e.kind = "wait"
                  /\ InSeq(e.job, global_ready_queue)
                  /\ jobs[e.job].state \in {"queued", "preempted"}

\* one FIFO pass preempted a job for a higher one and left another job
\* waiting behind running jobs of at least its priority
C4_Witness ==
    /\ scheduler = "fifo"
    /\ \E i \in LogIdx : sched_log[i].kind = "preempt"
    /\ \E i \in LogIdx :
         /\ sched_log[i].kind = "wait"
         /\ sched_log[i].seen_running # <<>>

\* C5: under SRTF a victim's remaining_time is never smaller than that of
\* the job it is preempted for, and when they are equal the incoming job
\* has strictly higher priority.
C5_StfPreemptsOnlyLonger ==
    scheduler = "stf" =>
      \A i \in LogIdx :
        LET e == sched_log[i]
        IN  e.kind = "preempt" =>
              /\ e.victim_remaining >= e.job_remaining
              /\ e.victim_remaining = e.job_remaining =>
                   PriorityValue(jobs[e.job].priority)
                     > PriorityValue(jobs[e.victim].priority)

\* an SRTF pass preempted a victim of equal remaining_time, and left a job
\* waiting behind a running job with less remaining_time
C5_Witness ==
    /\ scheduler = "stf"
    /\ \E i \in LogIdx :
         /\ sched_log[i].kind = "preempt"
         /\ sched_log[i].victim_remaining = sched_log[i].job_remaining
    /\ \E i \in LogIdx :
         /\ sched_log[i].kind = "wait"
         /\ \E k \in 1..Len(sched_log[i].seen_running) :
               sched_log[i].seen_running[k].remaining
                 < sched_log[i].job_remaining

\* the sweep of step 4 returns: the iteration's last change of state is made,
\* at a clock value no service has been received after
IterationEnds == pc = "sweep" /\ pc' \in {"loop", "emit"}

\* C6 (as claimed): when an iteration ends, every job's remaining_time is
\* max(0, duration - time spent Running), and a Completed job has run for at
\* least its duration.
C6_RemainingIsServiceOwed ==
    [][IterationEnds =>
         \A j \in JobIds :
           /\ jobs'[j].remaining_time = Max(0, jobs'[j].duration - ran'[j])
           /\ jobs'[j].state = "completed" => ran'[j] >= jobs'[j].duration]_vars

\* C7 (as claimed): after every iteration remaining_time <= duration, and
\* remaining_time = 0 exactly for the Completed jobs.
C7_ZeroIffCompleted ==
    AfterIteration =>
      \A j \in JobIds :
        /\ jobs[j].remaining_time <= jobs[j].duration
        /\ (jobs[j].remaining_time = 0) <=> (jobs[j].state = "completed")

\* C8: no step lowers a job's wait_time, and a step that preempts a job
\* leaves its wait_time as it was.
C8_WaitTimeMonotone ==
    [][\A j \in JobIds :
         /\ jobs'[j].wait_time >= jobs[j].wait_time
         /\ (jobs[j].state = "running" /\ jobs'[j].state = "preempted")
              => jobs'[j].wait_time = jobs[j].wait_time]_vars

\* a job runs again after a preemption, with more wait_time than it had at
\* its first start
C8_Witness ==
    \E j \in JobIds :
      /\ jobs[j].state = "running"
      /\ jobs[j].start_time # None
      /\ jobs[j].wait_time > jobs[j].start_time - jobs[j].arrival_time

\* the mean wait_time of a tenant's completed jobs, as a fraction
MeanWaitTime(t) ==
    IF completed[t] = <<>> THEN <<0, 1>>
    ELSE <<SumOver(jobs, completed[t], "wait"), Len(completed[t])>>

FracEq(a, b) == a[1] * b[2] = b[1] * a[2]

\* C9 (as claimed): in the results, avg_wait[t] is the mean of wait_time over
\* tenant t's completed jobs (0 when there are none) and throughput[t] is
\* their number.
C9_AvgWaitIsMeanWaitTime ==
    results # <<>> =>
      \A t \in Tenants :
        /\ FracEq(results[1].avg_wait[t], MeanWaitTime(t))
        /\ results[1].throughput[t] = Len(completed[t])

\* C10 (as claimed): when the results are collected the generator has been
\* stopped and its producer thread has finished.
C10_StoppedBeforeResults ==
    results # <<>> => (~gen_running /\ gen_pc = "done")

\* the producer threads that have not finished
LiveThreads == {i \in 1..Len(threads) : threads[i].at # "done"}

\* C11 (as claimed): after any number of start() calls at most one producer
\* thread is alive, and when stop() has returned every thread that was
\* spawned has finished.
C11_StartIdempotent ==
    /\ Cardinality(LiveThreads) <= 1
    /\ call = <<"stopped">> => LiveThreads = {}

\* (time, seq) of a queued event
EventKey(e) == <<e[1], e[2]>>

\* C12: the events in the queue have pairwise distinct seq, all below the
\* counter; pop returns an event whose (time, seq) is least among the queued
\* ones, under any sequence of push and pop; and in an engine run every
\* event handled has a (time, seq) above that of the event handled before.
C12_EventOrder ==
    [][/\ \A i, k \in 1..Len(event_queue') :
            /\ event_queue'[i][2] < counter'
            /\ i # k => event_queue'[i][2] # event_queue'[k][2]
       /\ (call' # call /\ call'[1] = "pop") =>
            \A k \in 1..Len(event_queue) :
               \/ EventKey(call'[2]) = EventKey(event_queue[k])
               \/ KeyLt(EventKey(call'[2]), EventKey(event_queue[k]))
       /\ handled' # handled =>
            /\ KeyLt(handled, handled')
            /\ \A k \in 1..Len(event_queue) :
                  \/ handled' = EventKey(event_queue[k])
                  \/ KeyLt(handled', EventKey(event_queue[k]))]_vars

\* pop returned an event pushed after one that stays queued (its time is
\* smaller), ahead of a queued event of the same time and larger seq
C12_Witness ==
    /\ call[1] = "pop"
    /\ \E k \in 1..Len(call[3]) :
          call[3][k][2] < call[2][2] /\ call[3][k][1] > call[2][1]
    /\ \E k \in 1..Len(call[3]) :
          call[3][k][2] > call[2][2] /\ call[3][k][1] = call[2][1]

\* C13 (as claimed): run_live yields a snapshot only when its content
\* differs from that of the snapshot yielded before, and over a span of
\* iterations in which no job arrives, starts, is preempted or completes at
\* most one snapshot is yielded.
C13_SnapshotOnlyOnChange ==
    [][/\ last_state' # last_state =>
            (last_state' = <<LiveState>> /\ <<LiveState>> # last_state)
       /\ span' < 2]_vars

\* the loop of run_live has been left, or its caller has abandoned it
LoopLeft == pc \in {"stop", "join", "collect", "done", "abandoned"}

\* C14: in run_live, with the stop flag set, the top of the loop is left only
\* for the exit; once the loop is left no event is handled, no snapshot is
\* yielded, no job changes and none completes; and the results count, per
\* tenant, exactly the jobs completed by then.
C14_CooperativeStop ==
    [][(variant = "live" /\ stop_signal) =>
         /\ pc = "loop" => pc' \in {"loop", "stop"}
         /\ LoopLeft =>
              /\ LoopLeft'
              /\ event_queue' = event_queue
              /\ last_state' = last_state
              /\ running_jobs' = running_jobs
              /\ completed' = completed
              /\ \A j \in JobIds : jobs'[j] = jobs[j]
         /\ results' # <<>> =>
              \A t \in Tenants :
                 results'[1].throughput[t] = Len(completed'[t])]_vars

\* a stopped live run has returned its results while a job was running and
\* another was still in the hand-off channel
C14_Witness ==
    /\ variant = "live"
    /\ stop_signal
    /\ pc = "done"
    /\ results # <<>>
    /\ running_jobs # <<>>
    /\ job_queue # <<>>

\* a scheduling pass is about to run under FIFO while the ready queue holds
\* exactly the low-priority job l and the high-priority job h, each asking
\* for the whole cpu of the only node
TwoJobPass(l, h) ==
    /\ scheduler = "fifo"
    /\ pc = "dispatch"
    /\ EventDue
    /\ event_queue[1][3].type = "scheduling"
    /\ Len(cluster) = 1
    /\ global_ready_queue \in {<<l, h>>, <<h, l>>}
    /\ jobs[l].priority = "low" /\ jobs[l].cpu = cluster[1].total_cpu
    /\ jobs[h].priority = "high" /\ jobs[h].cpu = cluster[1].total_cpu

\* C15 as stated: after the pass J_high is Running and J_low is Preempted,
\* its remaining_time being its duration less the time it ran.
C15_LowIsPreempted ==
    [][\A l, h \in JobIds :
         (TwoJobPass(l, h) /\ handled' # handled) =>
            /\ jobs'[h].state = "running"
            /\ jobs'[l].state = "preempted"
            /\ jobs'[l].remaining_time = jobs[l].duration - ran[l]]_vars

\* C15, amended: when the node is idle, the pass starts J_high and J_low is
\* neither started nor preempted: it stays in the ready queue with its state
\* and its fields, remaining_time included, as they were.
C15_LowStaysReady ==
    [][\A l, h \in JobIds :
         (TwoJobPass(l, h) /\ running_jobs = <<>> /\ handled' # handled) =>
            /\ pc' # "crashed"
            /\ jobs'[h].state = "running"
            /\ Len(running_jobs') = 1 /\ running_jobs'[1][2] = h
            /\ global_ready_queue' = <<l>>
            /\ jobs'[l] = jobs[l]]_vars

\* the pass has just run on a fresh J_low that arrived before J_high: J_high
\* was allocated and J_low, never started, was told to wait
C15_Witness ==
    /\ scheduler = "fifo"
    /\ pc = "dispatch"
    /\ Len(sched_log) = 2
    /\ sched_log[1].kind = "alloc" /\ sched_log[2].kind = "wait"
    /\ sched_log[1].job > sched_log[2].job
    /\ jobs[sched_log[1].job].priority = "high"
    /\ jobs[sched_log[1].job].state = "running"
    /\ jobs[sched_log[1].job].cpu = cluster[1].total_cpu
    /\ jobs[sched_log[2].job].priority = "low"
    /\ jobs[sched_log[2].job].state = "queued"
    /\ jobs[sched_log[2].job].cpu = cluster[1].total_cpu
    /\ global_ready_queue = <<sched_log[2].job>>
    /\ Len(running_jobs) = 1

\* C16: an allocate call on a node without room for the job raises and
\* leaves the node's used_cpu, used_ram, used_gpus and running_jobs as they
\* were; with room it does not raise, adds the job's cpu, ram and gpus to the
\* used amounts and appends its id to running_jobs.
C16_AllocateAtomic ==
    [][(call' # call /\ call'[1] = "allocate") =>
         LET id == call'[2]
             job == jobs[id]
             old == cluster[1]
             new == cluster'[1]
         IN  IF CanAllocate(old, job)
             THEN /\ ~call'[3]
                  /\ new.used_cpu = old.used_cpu + job.cpu
                  /\ new.used_ram = old.used_ram + job.ram
                  /\ new.used_gpus = old.used_gpus + job.gpus
                  /\ new.running_jobs = Append(old.running_jobs, id)
                  /\ new.total_cpu = old.total_cpu
                  /\ new.total_ram = old.total_ram
                  /\ new.total_gpus = old.total_gpus
             ELSE /\ call'[3]
                  /\ new = old]_vars

\* an allocate has just raised on a node that holds a job and still has a
\* free cpu: the request fits in no more than some of the dimensions
C16_Witness ==
    /\ call[1] = "allocate"
    /\ call[3]
    /\ cluster[1].running_jobs # <<>>
    /\ cluster[1].used_cpu < cluster[1].total_cpu
    /\ jobs[call[2]].cpu <= cluster[1].total_cpu - cluster[1].used_cpu

\* C17: no scheduling pass of an engine run raises, and a job the pass could
\* not place is still in the ready queue with its state and fields unchanged.
C17_ScheduleNeverRaises ==
    [][(pc = "dispatch" /\ EventDue /\ event_queue[1][3].type = "scheduling"
          /\ handled' # handled) =>
         /\ pc' # "crashed"
         /\ \A k \in 1..Len(sched_log') :
               sched_log'[k].kind = "wait" =>
                  /\ InSeq(sched_log'[k].job, global_ready_queue')
                  /\ jobs'[sched_log'[k].job] = jobs[sched_log'[k].job]]_vars

\* C18: jains_fairness never raises and returns 1 for n >= 1 equal positive
\* values, 1/n for a vector of length n with exactly one non-zero entry, 0 for
\* the empty and the all-zero vector, and a value in [1/n, 1] otherwise.
C18_JainsValues ==
    call[1] = "jains_fairness" =>
       LET m == call[2].m
           n == Len(m)
           r == call[3]
           nonzero == {i \in 1..n : m[i] # 0}
       IN  /\ ~r.raised
           /\ IF nonzero = {} THEN r.num = 0
              ELSE IF \A i \in 1..n : m[i] = m[1] THEN r.num = r.den
              ELSE IF Cardinality(nonzero) = 1 THEN r.num * n = r.den
              ELSE r.den <= r.num * n /\ r.num <= r.den

\* C19: when a job is allocated its wait_time becomes the time it has spent
\* in the ready queue since its arrival, last_start_time becomes the time of
\* the allocation and preemption_time is cleared; a first start sets
\* start_time to that time and wait_time to now - arrival_time, a resume adds
\* now - preemption_time to wait_time; and a start_time, once set, is never
\* changed.
C19_WaitAccounting ==
    [][\A j \in JobIds :
         /\ (jobs[j].state # "running" /\ jobs'[j].state = "running") =>
              /\ jobs'[j].wait_time = waited[j]
              /\ jobs'[j].last_start_time = clock
              /\ jobs'[j].preemption_time = None
              /\ IF jobs[j].start_time = None
                 THEN /\ jobs'[j].start_time = clock
                      /\ jobs'[j].wait_time = clock - jobs[j].arrival_time
                 ELSE /\ jobs[j].preemption_time # None
                      /\ jobs'[j].wait_time =
                            jobs[j].wait_time + clock - jobs[j].preemption_time
         /\ jobs[j].start_time # None =>
              jobs'[j].start_time = jobs[j].start_time]_vars

\* a job has been resumed: it runs again, later than it first started, its
\* preemption_time is cleared and its wait_time is the time it spent back in
\* the ready queue
C19_Witness ==
    \E j \in JobIds :
       /\ jobs[j].state = "running"
       /\ jobs[j].last_start_time > jobs[j].start_time
       /\ jobs[j].start_time # None
       /\ jobs[j].preemption_time = None
       /\ jobs[j].wait_time >= 1
       /\ jobs[j].wait_time = waited[j]

\* C20: a scheduling pass that preempts changes the remaining_time of no job
\* but its victims, and lowers a victim's by the service the victim received
\* since its remaining_time was last written.
C20_WorkConserving ==
    [][(pc = "dispatch" /\ EventDue /\ event_queue[1][3].type = "scheduling"
          /\ handled' # handled) =>
         \A j \in JobIds :
            jobs'[j].remaining_time =
               IF \E k \in 1..Len(sched_log') :
                     sched_log'[k].kind = "preempt" /\ sched_log'[k].victim = j
               THEN Max(0, jobs[j].remaining_time - (ran[j] - synced[j]))
               ELSE jobs[j].remaining_time]_vars

\* C21: over a whole run, of either variant, no step raises the
\* remaining_time of a job.
C21_RemainingNeverIncreases ==
    [][\A j \in JobIds :
         jobs'[j].remaining_time <= jobs[j].remaining_time]_vars

\* C22: every job a scheduling pass places without preemption goes to the
\* first node, in cluster order, that could allocate it when the pass looked,
\* and the pass preempts (or lets the job wait) only when no node could.
C22_FirstFit ==
    \A k \in 1..Len(sched_log) :
       LET e == sched_log[k]
           fits == {n \in 1..Len(e.seen_cluster) :
                       CanAllocate(e.seen_cluster[n], jobs[e.job])}
       IN  IF e.kind = "alloc"
           THEN e.node \in fits /\ \A n \in fits : e.node <= n
           ELSE fits = {}

\* a pass has placed a job on the idle second node, the first being full,
\* and has preempted for another job with both nodes full
C22_Witness ==
    /\ \E k \in 1..Len(sched_log) :
          /\ sched_log[k].kind = "alloc"
          /\ sched_log[k].node = 2
          /\ sched_log[k].seen_cluster[2].running_jobs = <<>>
    /\ \E k \in 1..Len(sched_log) :
          /\ sched_log[k].kind = "preempt"
          /\ sched_log[k].seen_cluster[2].used_cpu > 0

\* C23: run() and run_live(), handed the same jobs at the same times and
\* iterating at the same times under the same scheduler, agree after every
\* iteration on each job's state, remaining_time and completion time, and on
\* whether the loop has raised.
C23_SameLoop ==
    call[1] = "pair" =>
       /\ call[3].err = call[4].err
       /\ \A i \in 1..Len(call[3].jobs) :
             /\ call[3].jobs[i].state = call[4].jobs[i].state
             /\ call[3].jobs[i].remaining_time = call[4].jobs[i].remaining_time
             /\ call[3].jobs[i].end_time = call[4].jobs[i].end_time

\* a step of the producer thread: it leaves its sleep or hands a job off
ProducerStep == gen_pc \in {"sleep", "make"} /\ gen_pc' # gen_pc

\* C24: a step of the generator thread writes, of the state the engine
\* holds, the hand-off channel only: the event queue, the ready queue, the
\* running heap, the cluster and the tenants' lists are as they were, and so
\* is every job handed off earlier.
C24_OnlyChannelShared ==
    [][ProducerStep =>
         /\ event_queue' = event_queue
         /\ global_ready_queue' = global_ready_queue
         /\ running_jobs' = running_jobs
         /\ cluster' = cluster
         /\ completed' = completed
         /\ submitted' = submitted
         /\ \A j \in JobIds : jobs'[j] = jobs[j]]_vars

\* C25: two engines that differ only in preemption_enabled and receive the
\* same jobs at the same times are, after every iteration, in the same state:
\* same jobs, nodes, ready queue, running heap, completed lists, and the same
\* placements and preemptions logged by the last pass.
C25_FlagNotConsulted ==
    call[1] = "flags" =>
       [call[3] EXCEPT !.config = call[4].config] = call[4]

\* the engine whose flag is false has preempted a job in its last pass
C25_Witness ==
    /\ call[1] = "flags"
    /\ ~call[4].config.preemption_enabled
    /\ call[3].config.preemption_enabled
    /\ \E k \in 1..Len(call[4].log) : call[4].log[k].kind = "preempt"
    /\ \E i \in 1..Len(call[4].jobs) : call[4].jobs[i].state = "preempted"

\* C26: a job that a step starts while the running heap holds another job
\* with the same projected finish_time is itself held in the heap after the
\* step, every entry being (finish_time, seq, job, node), and the step does
\* not fail on a comparison of two jobs.
C26_TiesHeldBySeq ==
    [][\A j \in JobIds :
          (/\ jobs[j].state # "running"
           /\ jobs'[j].state = "running"
           /\ \E k \in 1..Len(running_jobs') :
                 /\ running_jobs'[k][2] # j
                 /\ running_jobs'[k][1] =
                       jobs'[j].last_start_time + jobs'[j].remaining_time)
          => /\ pc' # "crashed"
             /\ \E k \in 1..Len(running_jobs') :
                   /\ Len(running_jobs'[k]) = 4
                   /\ running_jobs'[k][3] = j]_vars

SchedulingEvents(q) == {k \in 1..Len(q) : q[k][3].type = "scheduling"}

\* C27: a job is started, and the log of a pass written, only by the dispatch
\* of a Scheduling event; the number of Scheduling events in the event queue
\* grows only while an Arrival (or Preemption) event is handled; a step that
\* completes a job leaves the event queue as it is; hence no step starts a
\* job of the ready queue while the event queue holds no Scheduling event.
C27_PassOnlyOnSchedulingEvent ==
    [][/\ (\/ sched_log' # sched_log
           \/ \E j \in JobIds : /\ jobs'[j].state = "running"
                                /\ jobs[j].state # "running")
          => /\ pc = "dispatch"
             /\ event_queue # <<>>
             /\ event_queue[1][3].type = "scheduling"
       /\ Cardinality(SchedulingEvents(event_queue'))
             > Cardinality(SchedulingEvents(event_queue))
          => /\ pc = "dispatch"
             /\ event_queue # <<>>
             /\ event_queue[1][3].type \in {"arrival", "preemption"}
       /\ (\E j \in JobIds : /\ jobs'[j].state = "completed"
                             /\ jobs[j].state # "completed")
          => event_queue' = event_queue /\ counter' = counter
       /\ \A j \in JobIds :
             (InSeq(j, global_ready_queue)
                /\ SchedulingEvents(event_queue) = {})
             => jobs'[j].state # "running"]_vars

\* a job suspended by a preemption sits in the ready queue and fits in the
\* capacity a completion has freed, while the event queue and the channel are
\* empty and the generator has ended
C27_Witness ==
    /\ event_queue = <<>>
    /\ job_queue = <<>>
    /\ gen_pc = "done"
    /\ pc = "loop"
    /\ \E j \in JobIds :
          /\ InSeq(j, global_ready_queue)
          /\ jobs[j].state = "preempted"
          /\ CanAllocate(cluster[1], jobs[j])
    /\ \E i \in JobIds : jobs[i].state = "completed"

\* C28: in the log of a scheduling pass, under either scheduler, the victim
\* of a preemption is not a job the pass placed before, a job the pass
\* handles is not the victim of an earlier preemption, no job is placed or
\* left waiting twice and none is preempted twice; so a pass changes the
\* state of a job at most once.
C28_OneChangePerPass ==
    \A k, m \in 1..Len(sched_log) :
       k < m =>
          /\ (sched_log[k].kind # "preempt" /\ sched_log[m].kind # "preempt")
             => sched_log[k].job # sched_log[m].job
          /\ (sched_log[k].kind = "alloc" /\ sched_log[m].kind = "preempt")
             => sched_log[m].victim # sched_log[k].job
          /\ sched_log[k].kind = "preempt"
             => /\ sched_log[m].job # sched_log[k].victim
                /\ sched_log[m].kind = "preempt"
                   => sched_log[m].victim # sched_log[k].victim

\* a pass placed a job and then preempted another job for a later one
C28_Witness ==
    \E k, m \in 1..Len(sched_log) :
       /\ k < m
       /\ sched_log[k].kind = "alloc"
       /\ sched_log[m].kind = "preempt"
       /\ jobs[sched_log[k].job].state = "running"
       /\ jobs[sched_log[m].victim].state = "preempted"
       /\ InSeq(sched_log[m].victim, global_ready_queue)

\* C29: for a generator started once, a stop() that has cleared the flag
\* returns; a thread that is to put a job can always do so; the thread leaves
\* its sleep for another job only with the flag set and runtime_seconds not
\* elapsed; and once stop() has returned no job is created, appended to a
\* submitted list or put into the channel.
C29_StopReturns ==
    /\ (call[1] = "joining") ~> (call[1] = "returned")
    /\ [](\A i \in 1..Len(threads) : threads[i].at = "make" => ENABLED OncePut)
    /\ [][/\ \A i \in 1..Len(threads) :
               (threads[i].at = "sleep" /\ threads'[i].at = "make")
               => /\ gen_running
                  /\ clock - threads[i].start_wall < config.runtime_seconds
          /\ call[1] = "returned"
             => /\ job_queue' = job_queue
                /\ submitted' = submitted
                /\ jobs' = jobs]_vars

\* stop() has returned and the channel holds a job that was put after stop()
\* cleared the flag
C29_Witness ==
    /\ call[1] = "returned"
    /\ ~gen_running
    /\ threads[1].at = "done"
    /\ Len(job_queue) > call[2]
    /\ \E t \in Tenants : Len(submitted[t]) > 0

=============================================================================
